---- MODULE Spec2Model ----
(***************************************************************************)
(* The publishing orchestration of src/app/api/publishing.py: the          *)
(* in-memory job store publish_jobs, the five HTTP handlers that create,   *)
(* read and cancel jobs, and the background task that publishes one        *)
(* platform of one job.                                                    *)
(*                                                                         *)
(* Time is counted in minutes.  An Optional value of the code is a         *)
(* sequence of length 0 (None) or 1.  A publish id (uuid4) is the job's    *)
(* position in the store: fresh, never reused.                             *)
(*                                                                         *)
(* Every handler is an async function without an await in it, so it is    *)
(* one atomic step of the event loop.  The background tasks added by one   *)
(* request run one after the other in the order they were added, once the  *)
(* response has been sent; the only suspension point of a task is the      *)
(* asyncio.sleep of publish_to_platform, so the end of one task and the    *)
(* beginning of the next task of the same request are one step.            *)
(*                                                                         *)
(* The handlers admit a content row whose status is ContentStatus.READY,   *)
(* the value src/app/api/webhooks.py gives a row (line 115); the model     *)
(* keeps of a row whether it is "ready" or, once published from, is        *)
(* "processing".                                                           *)
(***************************************************************************)
EXTENDS Integers, Sequences, FiniteSets, TLC

VARIABLES publish_jobs, content, background_tasks, sleeping, now

vars == <<publish_jobs, content, background_tasks, sleeping, now>>

\* ------------------------------------------------------------------ bounds
MaxJobs == 2
MaxPlatforms == 2
MaxBatch == 2
MaxTime == 1
MaxStagger == 1

\* --------------------------------------------------------- program constants
EstimateMinutes == 5

None == <<>>
Some(v) == <<v>>

Range(s) == {s[i] : i \in DOMAIN s}

\* ----------------------------------------------------- the database's rows
Users == {1, 2}
ContentIds == {1, 2}
ContentOwner == (1 :> 1) @@ (2 :> 1)
PlatformType == {"twitter", "instagram"}
social_platforms == {"twitter", "instagram"}
platform_credentials == {<<1, "twitter">>, <<2, "twitter">>, <<2, "instagram">>}

\* ------------------------------------------------------ inputs of a request
RequestContentIds == ContentIds \cup {3}
RequestPublishIds == 1..(MaxJobs + 1)
PlatformLists == UNION {[1..n -> PlatformType] : n \in 0..MaxPlatforms}
ContentIdLists == UNION {[1..n -> RequestContentIds] : n \in 0..MaxBatch}
ScheduledTimes == {None} \cup {Some(t) : t \in 1..(MaxTime + 1)}
StaggerMinutes == {None} \cup {Some(s) : s \in 0..MaxStagger}

\* ------------------------------------------------------------------- slots
Slot(st) ==
    [status |-> st, error |-> None, platform_post_id |-> None, published_url |-> None]

\* publish_to_platform: the result dictionary of one publish attempt
publish_to_platform(user_id, platform) ==
    IF platform \notin social_platforms
    THEN [status |-> "failed", error |-> Some("Platform not found"),
          platform_post_id |-> None, published_url |-> None]
    ELSE IF <<user_id, platform>> \notin platform_credentials
    THEN [status |-> "failed", error |-> Some("No active credentials"),
          platform_post_id |-> None, published_url |-> None]
    ELSE [status |-> "success", error |-> None,
          platform_post_id |-> Some(platform), published_url |-> Some(platform)]

\* the platform_statuses dictionary built by a dict comprehension over the list
InitialStatuses(platforms, st) ==
    [p \in Range(platforms) |-> Slot(st)]

\* the tasks one job adds to the request's BackgroundTasks, one per list entry
JobTasks(publish_id, platforms) ==
    [i \in 1..Len(platforms) |-> [publish_id |-> publish_id, platform |-> platforms[i]]]

\* a request's BackgroundTasks joins the running ones when it holds a task
AddTasks(queues, tasks) ==
    IF tasks = <<>> THEN queues ELSE Append(queues, tasks)

\* ------------------------------------------------- the background task body
\* a task begin that only changes the status entry of the slot it finds
TaskBeginUpdating(jobs, task) ==
    [jobs EXCEPT ![task.publish_id].platform_statuses[task.platform].status = "publishing"]

\* a task begin that marks every slot of the job as publishing
TaskBeginAll(jobs, task) ==
    [jobs EXCEPT ![task.publish_id].platform_statuses =
        [p \in DOMAIN jobs[task.publish_id].platform_statuses |-> Slot("publishing")]]

\* lines 465-466: the slot is overwritten with {"status": "publishing"}
TaskBegin(jobs, task) ==
    [jobs EXCEPT ![task.publish_id].platform_statuses[task.platform] = Slot("publishing")]

\* a task end that leaves the overall status as it finds it
DoneStatusKept(job) == job.status

\* lines 477-484: the overall status once every slot is success or failed
DoneStatus(job) ==
    LET all_statuses == {job.platform_statuses[p].status : p \in DOMAIN job.platform_statuses}
    IN  IF all_statuses \subseteq {"success", "failed"}
        THEN IF "success" \in all_statuses THEN "completed" ELSE "failed"
        ELSE job.status

\* a task end that writes the slot map back from the snapshot taken when the
\* job was created
TaskEndStale(jobs, task, t) ==
    LET job == jobs[task.publish_id]
        result == publish_to_platform(job.user_id, task.platform)
        stored == [job EXCEPT !.platform_statuses =
                       [p \in DOMAIN job.platform_statuses |->
                           IF p = task.platform THEN result ELSE Slot("pending")],
                   !.updated_at = Some(t)]
    IN  [jobs EXCEPT ![task.publish_id] = [stored EXCEPT !.status = DoneStatus(stored)]]

\* lines 472-484: the result is stored, updated_at set, the status recomputed
TaskEnd(jobs, task, t) ==
    LET job == jobs[task.publish_id]
        result == publish_to_platform(job.user_id, task.platform)
        stored == [job EXCEPT !.platform_statuses[task.platform] = result,
                              !.updated_at = Some(t)]
    IN  [jobs EXCEPT ![task.publish_id] = [stored EXCEPT !.status = DoneStatus(stored)]]

Init ==
    /\ publish_jobs = <<>>
    /\ content = [c \in ContentIds |-> "ready"]
    /\ background_tasks = <<>>
    /\ sleeping = <<>>
    /\ now = 0

\* the clock moves on
Tick ==
    /\ now < MaxTime
    /\ now' = now + 1
    /\ UNCHANGED <<publish_jobs, content, background_tasks, sleeping>>

\* the content row of the caller (Content.id == content_id, owner_id == user)
OwnedContent(content_id, user) ==
    content_id \in ContentIds /\ ContentOwner[content_id] = user

\* lines 135-150 and 218-233: the HTTP status the content checks end in
ContentCheck(user, content_id) ==
    IF ~OwnedContent(content_id, user) THEN 404
    ELSE IF content[content_id] # "ready" THEN 400
    ELSE 200

\* an immediate publish that leaves the content's status as it was
publish_immediately_keeping_ready(user, content_id, platforms) ==
    LET publish_id == Len(publish_jobs) + 1
        job_data == [content_id |-> content_id,
                     platforms |-> platforms,
                     status |-> "publishing",
                     scheduled_time |-> None,
                     created_at |-> now,
                     estimated_completion |-> now + EstimateMinutes,
                     platform_statuses |-> InitialStatuses(platforms, "pending"),
                     user_id |-> user,
                     updated_at |-> None]
    IN  IF ContentCheck(user, content_id) # 200
        THEN UNCHANGED vars
        ELSE /\ Len(publish_jobs) < MaxJobs
             /\ publish_jobs' = Append(publish_jobs, job_data)
             /\ background_tasks' = AddTasks(background_tasks, JobTasks(publish_id, platforms))
             /\ UNCHANGED <<content, sleeping, now>>

\* POST /publishing/immediate
publish_immediately(user, content_id, platforms) ==
    LET publish_id == Len(publish_jobs) + 1
        job_data == [content_id |-> content_id,
                     platforms |-> platforms,
                     status |-> "publishing",
                     scheduled_time |-> None,
                     created_at |-> now,
                     estimated_completion |-> now + EstimateMinutes,
                     platform_statuses |-> InitialStatuses(platforms, "pending"),
                     user_id |-> user,
                     updated_at |-> None]
    IN  IF ContentCheck(user, content_id) # 200
        THEN UNCHANGED vars
        ELSE /\ Len(publish_jobs) < MaxJobs
             /\ publish_jobs' = Append(publish_jobs, job_data)
             /\ background_tasks' = AddTasks(background_tasks, JobTasks(publish_id, platforms))
             /\ content' = [content EXCEPT ![content_id] = "processing"]
             /\ UNCHANGED <<sleeping, now>>

\* lines 205-215 and 217-233: the HTTP status schedule_publishing ends in
ScheduleCheck(user, content_id, scheduled_time) ==
    IF scheduled_time = None THEN 400
    ELSE IF scheduled_time[1] <= now THEN 400
    ELSE ContentCheck(user, content_id)

\* POST /publishing/schedule
schedule_publishing(user, content_id, platforms, scheduled_time) ==
    IF ScheduleCheck(user, content_id, scheduled_time) # 200
    THEN UNCHANGED vars
    ELSE /\ Len(publish_jobs) < MaxJobs
         /\ \E t2 \in now..MaxTime :
              /\ publish_jobs' = Append(publish_jobs,
                     [content_id |-> content_id,
                      platforms |-> platforms,
                      status |-> "scheduled",
                      scheduled_time |-> scheduled_time,
                      created_at |-> t2,
                      estimated_completion |-> scheduled_time[1] + EstimateMinutes,
                      platform_statuses |-> InitialStatuses(platforms, "scheduled"),
                      user_id |-> user,
                      updated_at |-> None])
              /\ now' = t2
         /\ UNCHANGED <<content, background_tasks, sleeping>>

\* lines 277-281: the rows the batch query selects
ReadyItems(user, content_ids) ==
    {c \in Range(content_ids) : OwnedContent(c, user) /\ content[c] = "ready"}

\* a batch refused only when the query found no row at all
BatchCheckAnyRow(user, content_ids) ==
    IF ReadyItems(user, content_ids) = {} /\ content_ids # <<>> THEN 400 ELSE 200

\* line 283: the batch is refused unless the query found as many rows as ids
BatchCheck(user, content_ids) ==
    IF Cardinality(ReadyItems(user, content_ids)) # Len(content_ids) THEN 400 ELSE 200

\* the query has no ORDER BY: its rows come in an order the database chooses
Orderings(S) ==
    {o \in [1..Cardinality(S) -> S] : \A i, k \in DOMAIN o : i # k => o[i] # o[k]}

\* lines 294-296: the publish time of the item at 0-based position i
PublishTime(current_time, stagger_minutes, i) ==
    IF stagger_minutes # None /\ stagger_minutes[1] # 0 /\ i > 0
    THEN current_time + stagger_minutes[1] * i
    ELSE current_time

\* lines 298-309: the job of the item at 0-based position i, created at time t
BatchJob(user, content_id, platforms, scheduled_time, stagger_minutes, current_time, i, t) ==
    LET publish_time == PublishTime(current_time, stagger_minutes, i)
    IN  [content_id |-> content_id,
         platforms |-> platforms,
         status |-> IF scheduled_time # None THEN "scheduled" ELSE "publishing",
         scheduled_time |-> IF scheduled_time # None THEN Some(publish_time) ELSE None,
         created_at |-> t,
         estimated_completion |-> publish_time + EstimateMinutes,
         platform_statuses |-> InitialStatuses(platforms, "pending"),
         user_id |-> user,
         updated_at |-> None]

RECURSIVE BatchTasks(_, _, _)
\* lines 315-325: the tasks of the jobs first+1 .. first+n, in creation order
BatchTasks(first, n, platforms) ==
    IF n = 0 THEN <<>>
    ELSE BatchTasks(first, n - 1, platforms) \o JobTasks(first + n, platforms)

\* POST /publishing/batch
batch_publish(user, content_ids, platforms, scheduled_time, stagger_minutes) ==
    IF BatchCheck(user, content_ids) # 200
    THEN UNCHANGED vars
    ELSE /\ Len(publish_jobs) + Len(content_ids) <= MaxJobs
         /\ \E content_items \in Orderings(ReadyItems(user, content_ids)) :
              LET n == Len(content_items)
                  first == Len(publish_jobs)
                  current_time == IF scheduled_time # None THEN scheduled_time[1] ELSE now
                  created == [i \in 1..n |->
                                 BatchJob(user, content_items[i], platforms, scheduled_time,
                                          stagger_minutes, current_time, i - 1, now)]
              IN  /\ publish_jobs' = publish_jobs \o created
                  /\ background_tasks' =
                         IF scheduled_time = None
                         THEN AddTasks(background_tasks, BatchTasks(first, n, platforms))
                         ELSE background_tasks
         /\ UNCHANGED <<content, sleeping, now>>

\* the first task of a request's BackgroundTasks starts after the response
BackgroundStart(q) ==
    /\ q \in DOMAIN background_tasks
    /\ background_tasks[q] # <<>>
    /\ q \notin Range(sleeping)
    /\ publish_jobs' = TaskBegin(publish_jobs, Head(background_tasks[q]))
    /\ sleeping' = Append(sleeping, q)
    /\ UNCHANGED <<content, background_tasks, now>>

\* the oldest asyncio.sleep ends: its task finishes, and the next task of the
\* same request runs up to its own asyncio.sleep
BackgroundResume ==
    /\ sleeping # <<>>
    /\ LET q == Head(sleeping)
           task == Head(background_tasks[q])
           rest == Tail(background_tasks[q])
           ended == TaskEnd(publish_jobs, task, now)
       IN  /\ background_tasks' = [background_tasks EXCEPT ![q] = rest]
           /\ IF rest = <<>>
              THEN /\ publish_jobs' = ended
                   /\ sleeping' = Tail(sleeping)
              ELSE /\ publish_jobs' = TaskBegin(ended, Head(rest))
                   /\ sleeping' = Append(Tail(sleeping), q)
    /\ UNCHANGED <<content, now>>

\* a percentage that counts every slot that is not being published as completed
PercentageOfIdle(job) ==
    LET total_platforms == Len(job.platforms)
        completed_platforms ==
            Cardinality({p \in DOMAIN job.platform_statuses :
                            job.platform_statuses[p].status # "publishing"})
    IN  IF total_platforms > 0 THEN (completed_platforms * 100) \div total_platforms ELSE 0

\* lines 359-365: int((completed_platforms / total_platforms) * 100); the
\* double arithmetic agrees with the integer quotient for every total below 50
CompletionPercentage(job) ==
    LET total_platforms == Len(job.platforms)
        completed_platforms ==
            Cardinality({p \in DOMAIN job.platform_statuses :
                            job.platform_statuses[p].status \in {"success", "failed"}})
    IN  IF total_platforms > 0 THEN (completed_platforms * 100) \div total_platforms ELSE 0

\* lines 346-357: the HTTP status get_publish_status ends in
StatusCheck(publish_id, user) ==
    IF publish_id \notin DOMAIN publish_jobs THEN 404
    ELSE IF publish_jobs[publish_id].user_id # user THEN 403
    ELSE 200

\* lines 367-375: the body of the 200 response
PublishStatusResponse(publish_id) ==
    LET job == publish_jobs[publish_id]
    IN  [publish_id |-> publish_id,
         content_id |-> job.content_id,
         overall_status |-> job.status,
         platform_statuses |-> job.platform_statuses,
         created_at |-> job.created_at,
         updated_at |-> IF job.updated_at = None THEN job.created_at ELSE job.updated_at[1],
         completion_percentage |-> CompletionPercentage(job)]

\* a status request that stamps the job it reads
get_publish_status_stamping(publish_id, user) ==
    IF StatusCheck(publish_id, user) # 200
    THEN UNCHANGED vars
    ELSE /\ publish_jobs' = [publish_jobs EXCEPT ![publish_id].updated_at = Some(now)]
         /\ UNCHANGED <<content, background_tasks, sleeping, now>>

\* GET /publishing/status/{publish_id}: nothing is written
get_publish_status(publish_id, user) ==
    /\ StatusCheck(publish_id, user) \in {200, 403, 404}
    /\ UNCHANGED vars

\* a cancel that also takes a job whose publishing is under way
CancellableInProgress(job) == job.status \in {"scheduled", "pending", "publishing"}

\* line 399: the overall statuses a job may be cancelled in
Cancellable(job) == job.status \in {"scheduled", "pending"}

\* a cancel that does not look at who asks
CancelCheckAnyCaller(publish_id, user) ==
    IF publish_id \notin DOMAIN publish_jobs THEN 404
    ELSE IF ~Cancellable(publish_jobs[publish_id]) THEN 400
    ELSE 200

\* lines 386-403: the HTTP status cancel_publishing ends in
CancelCheck(publish_id, user) ==
    IF publish_id \notin DOMAIN publish_jobs THEN 404
    ELSE IF publish_jobs[publish_id].user_id # user THEN 403
    ELSE IF ~Cancellable(publish_jobs[publish_id]) THEN 400
    ELSE 200

\* a cancel that also wipes the job's scheduled time
cancel_publishing_unscheduling(publish_id, user) ==
    IF CancelCheck(publish_id, user) # 200
    THEN UNCHANGED vars
    ELSE /\ publish_jobs' = [publish_jobs EXCEPT ![publish_id].status = "cancelled",
                                                 ![publish_id].scheduled_time = None,
                                                 ![publish_id].updated_at = Some(now)]
         /\ UNCHANGED <<content, background_tasks, sleeping, now>>

\* DELETE /publishing/cancel/{publish_id}
cancel_publishing(publish_id, user) ==
    IF CancelCheck(publish_id, user) # 200
    THEN UNCHANGED vars
    ELSE /\ publish_jobs' = [publish_jobs EXCEPT ![publish_id].status = "cancelled",
                                                 ![publish_id].updated_at = Some(now)]
         /\ UNCHANGED <<content, background_tasks, sleeping, now>>

\* ------------------------------------------------------------ GET /history
\* line 426: the default of the limit parameter
DefaultLimit == 50

\* the values a request gives skip and limit: any int, neither is validated
Skips == (0 - MaxJobs)..MaxJobs
Limits == (0 - 1)..MaxJobs

\* lines 433-436: the caller's jobs, in the order of the store
UserJobs(user) == SelectSeq([j \in DOMAIN publish_jobs |-> j],
                            LAMBDA j : publish_jobs[j].user_id = user)

\* s without its element at position i
Without(s, i) == SubSeq(s, 1, i - 1) \o SubSeq(s, i + 1, Len(s))

\* line 439: list.sort(key = created_at, reverse = True); the sort is stable,
\* so jobs created at the same time keep the order they had
RECURSIVE SortNewestFirst(_)
SortNewestFirst(ids) ==
    IF ids = <<>> THEN <<>>
    ELSE LET newest == CHOOSE i \in DOMAIN ids :
                           /\ \A k \in DOMAIN ids :
                                  publish_jobs[ids[k]].created_at <= publish_jobs[ids[i]].created_at
                           /\ \A k \in 1..(i - 1) :
                                  publish_jobs[ids[k]].created_at < publish_jobs[ids[i]].created_at
         IN  <<ids[newest]>> \o SortNewestFirst(Without(ids, newest))

\* a slice index as Python reads it: a negative one counts from the end
SliceIndex(i, n) ==
    IF i < 0 THEN (IF i + n < 0 THEN 0 ELSE i + n)
    ELSE (IF i > n THEN n ELSE i)

\* line 442: user_jobs[skip:skip + limit]
Slice(s, start, stop) ==
    SubSeq(s, SliceIndex(start, Len(s)) + 1, SliceIndex(stop, Len(s)))

\* lines 444-449: the body of the response; a job is named by its publish id
PublishHistoryResponse(user, skip, limit) ==
    LET user_jobs == SortNewestFirst(UserJobs(user))
    IN  [total |-> Len(user_jobs),
         jobs |-> Slice(user_jobs, skip, skip + limit),
         skip |-> skip,
         limit |-> limit]

\* GET /publishing/history: nothing is written
get_publish_history(user, skip, limit) ==
    /\ PublishHistoryResponse(user, skip, limit).total <= Len(publish_jobs)
    /\ UNCHANGED vars

\* the requests the handlers refuse (404, 403, 400): a refused request raises
\* before the handler writes anything, so all of them are the same step
Refused ==
    IF \/ \E u \in Users, c \in RequestContentIds : ContentCheck(u, c) # 200
       \/ \E u \in Users, c \in RequestContentIds, st \in ScheduledTimes :
              ScheduleCheck(u, c, st) # 200
       \/ \E u \in Users, cs \in ContentIdLists : BatchCheck(u, cs) # 200
       \/ \E j \in RequestPublishIds, u \in Users : CancelCheck(j, u) # 200
       \/ \E j \in RequestPublishIds, u \in Users : StatusCheck(j, u) # 200
    THEN UNCHANGED vars
    ELSE FALSE

Next ==
    \/ Tick
    \/ \E u \in Users, c \in RequestContentIds :
           /\ ContentCheck(u, c) = 200
           /\ Len(publish_jobs) < MaxJobs
           /\ \E pl \in PlatformLists : publish_immediately(u, c, pl)
    \/ \E u \in Users, c \in RequestContentIds, st \in ScheduledTimes :
           /\ ScheduleCheck(u, c, st) = 200
           /\ Len(publish_jobs) < MaxJobs
           /\ \E pl \in PlatformLists : schedule_publishing(u, c, pl, st)
    \/ \E u \in Users, cs \in ContentIdLists \ {<<>>} :
           /\ BatchCheck(u, cs) = 200
           /\ Len(publish_jobs) + Len(cs) <= MaxJobs
           /\ \E pl \in PlatformLists, st \in ScheduledTimes, sm \in StaggerMinutes :
                  batch_publish(u, cs, pl, st, sm)
    \/ \E u \in Users : batch_publish(u, <<>>, <<>>, None, None)
    \/ \E q \in 1..MaxJobs : BackgroundStart(q)
    \/ BackgroundResume
    \/ \E j \in RequestPublishIds, u \in Users :
           CancelCheck(j, u) = 200 /\ cancel_publishing(j, u)
    \/ \E j \in RequestPublishIds, u \in Users :
           StatusCheck(j, u) = 200 /\ get_publish_status(j, u)
    \/ \E u \in Users : get_publish_history(u, 0, DefaultLimit)
    \/ Refused

Spec == Init /\ [][Next]_vars

\* The clock moves on, and the event loop runs every background task that can
\* run: a task that is ready to start starts, a sleep that was begun ends.
SpecFair ==
    /\ Spec
    /\ WF_vars(Tick)
    /\ WF_vars(\E q \in 1..MaxJobs : BackgroundStart(q))
    /\ WF_vars(BackgroundResume)

\* ---------------------------------------------------------------------------
\* Immediate publishing alone, with platform lists one entry longer.
LongPlatformLists == UNION {[1..n -> PlatformType] : n \in 0..(MaxPlatforms + 1)}

NextImmediate ==
    \/ Tick
    \/ \E u \in Users, c \in RequestContentIds :
           /\ ContentCheck(u, c) = 200
           /\ Len(publish_jobs) < MaxJobs
           /\ \E pl \in LongPlatformLists : publish_immediately(u, c, pl)
    \/ \E q \in 1..MaxJobs : BackgroundStart(q)
    \/ BackgroundResume
    \/ \E j \in RequestPublishIds, u \in Users :
           StatusCheck(j, u) = 200 /\ get_publish_status(j, u)
    \/ Refused

SpecImmediate == Init /\ [][NextImmediate]_vars

\* ---------------------------------------------------------------------------
\* The platform names as a request body carries them: any string.  Only
\* PublishRequest has the validator of lines 33-39; BatchPublishRequest
\* (lines 42-47) has none.
RawPlatforms == PlatformType \cup {"myspace"}

RawPlatformLists == UNION {[1..n -> RawPlatforms] : n \in 0..MaxPlatforms}

\* lines 33-39: every entry of the list is a PlatformType value
validate_platforms(v) == \A i \in DOMAIN v : v[i] \in PlatformType

NextRaw ==
    \/ Tick
    \/ \E u \in Users, c \in RequestContentIds :
           /\ ContentCheck(u, c) = 200
           /\ Len(publish_jobs) < MaxJobs
           /\ \E pl \in RawPlatformLists :
                  validate_platforms(pl) /\ publish_immediately(u, c, pl)
    \/ \E u \in Users, cs \in ContentIdLists \ {<<>>} :
           /\ BatchCheck(u, cs) = 200
           /\ Len(publish_jobs) + Len(cs) <= MaxJobs
           /\ \E pl \in RawPlatformLists, st \in ScheduledTimes, sm \in StaggerMinutes :
                  batch_publish(u, cs, pl, st, sm)
    \/ \E q \in 1..MaxJobs : BackgroundStart(q)
    \/ BackgroundResume
    \/ \E j \in RequestPublishIds, u \in Users :
           StatusCheck(j, u) = 200 /\ get_publish_status(j, u)
    \/ Refused

SpecRaw == Init /\ [][NextRaw]_vars

\* ---------------------------------------------------------------------------
\* The history read with every skip and limit, over jobs created one by one.
NextHistory ==
    \/ Tick
    \/ \E u \in Users, c \in RequestContentIds :
           /\ ContentCheck(u, c) = 200
           /\ Len(publish_jobs) < MaxJobs
           /\ \E pl \in PlatformLists : publish_immediately(u, c, pl)
    \/ \E u \in Users, c \in RequestContentIds, st \in ScheduledTimes :
           /\ ScheduleCheck(u, c, st) = 200
           /\ Len(publish_jobs) < MaxJobs
           /\ \E pl \in PlatformLists : schedule_publishing(u, c, pl, st)
    \/ \E q \in 1..MaxJobs : BackgroundStart(q)
    \/ BackgroundResume
    \/ \E u \in Users, skip \in Skips, limit \in Limits :
           get_publish_history(u, skip, limit)
    \/ Refused

SpecHistory == Init /\ [][NextHistory]_vars

\* ---------------------------------------------------------------------------
\* What the claims speak about.
Statuses(job) == {job.platform_statuses[p].status : p \in DOMAIN job.platform_statuses}

Owner(j) == publish_jobs[j].user_id

\* the completion percentage a 200 response of get_publish_status carries
ReportedPercentage(j) == PublishStatusResponse(j).completion_percentage

\* the overall status a 200 response of get_publish_status carries
ReportedStatus(j) == PublishStatusResponse(j).overall_status

\* no background task of job j is waiting or running
TasksDone(j) ==
    \A q \in DOMAIN background_tasks :
        \A i \in DOMAIN background_tasks[q] : background_tasks[q][i].publish_id # j

\* C1: the overall status get_publish_status reports is the section 4.3
\* aggregate of the job's current slot map (publishing if a slot is publishing,
\* completed or failed once all slots are success or failed, scheduled if all
\* are scheduled, cancelled if all are cancelled), wherever that aggregate is
\* determined, and a job reported cancelled has every slot cancelled.
C1_StatusIsAggregate ==
    \A j \in DOMAIN publish_jobs :
        LET S == Statuses(publish_jobs[j])
            Aggregate ==
                IF "publishing" \in S THEN "publishing"
                ELSE IF S # {} /\ S \subseteq {"success", "failed"}
                THEN (IF "success" \in S THEN "completed" ELSE "failed")
                ELSE IF S = {"scheduled"} THEN "scheduled"
                ELSE IF S = {"cancelled"} THEN "cancelled"
                ELSE "undetermined"
        IN  /\ Aggregate # "undetermined" => ReportedStatus(j) = Aggregate
            /\ ReportedStatus(j) = "cancelled" => S \subseteq {"cancelled"}

\* the job's list names a platform the owner has an active credential for and
\* one the owner has none for
MixedCredentials(job) ==
    /\ \E p \in Range(job.platforms) : <<job.user_id, p>> \in platform_credentials
    /\ \E p \in Range(job.platforms) : <<job.user_id, p>> \notin platform_credentials

\* C2: once every task of an immediately published job with mixed credentials
\* has run, each slot without a credential is failed with the no-credentials
\* error, each slot with one is success, the overall status is completed and
\* the reported completion percentage is 100.
C2_MixedJobCompletes ==
    \A j \in DOMAIN publish_jobs :
        LET job == publish_jobs[j]
        IN  (MixedCredentials(job) /\ TasksDone(j)) =>
                /\ \A p \in DOMAIN job.platform_statuses :
                       IF <<job.user_id, p>> \in platform_credentials
                       THEN job.platform_statuses[p].status = "success"
                       ELSE /\ job.platform_statuses[p].status = "failed"
                            /\ job.platform_statuses[p].error = Some("No active credentials")
                /\ ReportedStatus(j) = "completed"
                /\ ReportedPercentage(j) = 100

\* dispatch has begun for a platform of job j
DispatchBegun(j) ==
    Statuses(publish_jobs[j]) \cap {"publishing", "success", "failed"} # {}

\* C3: a cancel of a job with a slot publishing, success or failed is refused
\* (with 400 when the owner asks) and changes nothing.
C3_CancelRefusedAfterDispatch ==
    [][\A j \in DOMAIN publish_jobs, u \in Users :
          (DispatchBegun(j) /\ cancel_publishing(j, u)) =>
              /\ CancelCheck(j, u) # 200
              /\ CancelCheck(j, Owner(j)) = 400
              /\ UNCHANGED vars]_vars

C3_Witness ==
    \E j \in DOMAIN publish_jobs :
        /\ DispatchBegun(j)
        /\ "pending" \in Statuses(publish_jobs[j])
        /\ CancelCheck(j, Owner(j)) = 400

\* C4: the owner's cancel succeeds for every job whose slots are all still
\* pending or scheduled.
C4_CancelBeforeDispatch ==
    \A j \in DOMAIN publish_jobs :
        (/\ Statuses(publish_jobs[j]) # {}
         /\ Statuses(publish_jobs[j]) \subseteq {"pending", "scheduled"}
         /\ publish_jobs[j].status # "cancelled") =>
            CancelCheck(j, Owner(j)) = 200

\* C5: right after a successful cancel every slot of the job is cancelled and
\* so is its overall status.
C5_CancelCancelsSlots ==
    [][\A j \in DOMAIN publish_jobs :
          (CancelCheck(j, Owner(j)) = 200 /\ cancel_publishing(j, Owner(j))) =>
              /\ publish_jobs'[j].status = "cancelled"
              /\ Statuses(publish_jobs'[j]) \subseteq {"cancelled"}]_vars

\* C6: a cancelled job never changes again: no later step touches its overall
\* status or its slots, and none of its slots enters publishing.
C6_CancelledIsTerminal ==
    [][\A j \in DOMAIN publish_jobs :
          publish_jobs[j].status = "cancelled" =>
              /\ publish_jobs'[j] = publish_jobs[j]
              /\ CancelCheck(j, Owner(j)) = 400]_vars

C6_Witness ==
    \E j \in DOMAIN publish_jobs :
        /\ publish_jobs[j].status = "cancelled"
        /\ publish_jobs[j].scheduled_time # None
        /\ publish_jobs[j].scheduled_time[1] <= now
        /\ \E k \in DOMAIN publish_jobs : "success" \in Statuses(publish_jobs[k])

\* C7: the completion percentage get_publish_status reports stays within
\* 0..100 and never decreases from one state to the next, also for a job whose
\* list names a platform twice.
C7_PercentageMonotone ==
    [][\A j \in DOMAIN publish_jobs :
          /\ ReportedPercentage(j)' \in 0..100
          /\ ReportedPercentage(j)' >= ReportedPercentage(j)]_vars

C7_Witness ==
    \E j \in DOMAIN publish_jobs :
        /\ Len(publish_jobs[j].platforms) > Cardinality(DOMAIN publish_jobs[j].platform_statuses)
        /\ TasksDone(j)
        /\ ReportedPercentage(j) > 0

\* C8: the reported completion percentage is floor(100 * t / n), n the number
\* of slots of the job and t the number of its slots in a terminal status.
C8_PercentageFormula ==
    \A j \in DOMAIN publish_jobs :
        LET slots == publish_jobs[j].platform_statuses
            n == Cardinality(DOMAIN slots)
            t == Cardinality({p \in DOMAIN slots :
                                 slots[p].status \in {"success", "failed", "cancelled"}})
        IN  n > 0 => ReportedPercentage(j) = (100 * t) \div n

\* the batch request names a content id that is not ready or not the caller's
HasUnready(user, content_ids) ==
    \E i \in DOMAIN content_ids :
        ~(OwnedContent(content_ids[i], user) /\ content[content_ids[i]] = "ready")

\* the platform lists a step that adds a job can have been asked with
AddedPlatforms ==
    IF Len(publish_jobs') > Len(publish_jobs)
    THEN {publish_jobs'[Len(publish_jobs')].platforms}
    ELSE PlatformLists

\* C9: a batch request naming a content id that is not ready (or not the
\* caller's) is refused with 400, and no step that adds a job or a queue of
\* background tasks is a step of such a request.
C9_BatchAllOrNothing ==
    /\ [](\A u \in Users, cs \in ContentIdLists :
              HasUnready(u, cs) => BatchCheck(u, cs) = 400)
    /\ [][(Len(publish_jobs') > Len(publish_jobs)
               \/ Len(background_tasks') > Len(background_tasks)) =>
              \A u \in Users, cs \in ContentIdLists :
                  HasUnready(u, cs) =>
                      ~ \E pl \in AddedPlatforms, st \in ScheduledTimes,
                           sm \in StaggerMinutes : batch_publish(u, cs, pl, st, sm)]_vars

C9_Witness ==
    /\ Len(publish_jobs) < MaxJobs
    /\ \E cs \in ContentIdLists :
           /\ HasUnready(1, cs)
           /\ ReadyItems(1, cs) # {}
           /\ cs[Len(cs)] \in ContentIds
           /\ content[cs[Len(cs)]] = "processing"
           /\ BatchCheck(1, cs) = 400

\* the time the job becomes due: estimated_completion is publish_time + 5
EffectiveTime(job) == job.estimated_completion - EstimateMinutes

\* C10: the job a batch creates for the content id at 0-based index i of the
\* request's content_ids gets effective time T + i*S, T the scheduled_time or
\* now, S the stagger (none: 0).
C10_StaggerByRequestIndex ==
    [][Len(publish_jobs') > Len(publish_jobs) =>
          \A u \in Users, cs \in ContentIdLists \ {<<>>}, pl \in AddedPlatforms,
             st \in ScheduledTimes, sm \in StaggerMinutes :
              (BatchCheck(u, cs) = 200 /\ batch_publish(u, cs, pl, st, sm)) =>
                  \A i \in DOMAIN cs :
                      \A k \in (Len(publish_jobs) + 1)..Len(publish_jobs') :
                          publish_jobs'[k].content_id = cs[i] =>
                              EffectiveTime(publish_jobs'[k]) =
                                  (IF st # None THEN st[1] ELSE now)
                                  + (i - 1) * (IF sm # None THEN sm[1] ELSE 0)]_vars

\* C11: every job in the store has a non-empty platform list whose entries
\* are all known platforms.
C11_PlatformsValid ==
    \A j \in DOMAIN publish_jobs :
        /\ publish_jobs[j].platforms # <<>>
        /\ Range(publish_jobs[j].platforms) \subseteq PlatformType

\* C12: every job that carries a scheduled_time has it strictly later than
\* its created_at.
C12_ScheduledAfterCreation ==
    \A j \in DOMAIN publish_jobs :
        publish_jobs[j].scheduled_time # None =>
            publish_jobs[j].scheduled_time[1] > publish_jobs[j].created_at

\* C13: get_publish_status and cancel_publishing answer 404 for an id that is
\* not in the store and 403 for a caller who is not the job's owner, and no
\* such cancel changes anything.
C13_OwnerOnly ==
    /\ [](\A j \in RequestPublishIds, u \in Users :
              /\ j \notin DOMAIN publish_jobs =>
                     StatusCheck(j, u) = 404 /\ CancelCheck(j, u) = 404
              /\ (j \in DOMAIN publish_jobs /\ u # Owner(j)) =>
                     StatusCheck(j, u) = 403 /\ CancelCheck(j, u) = 403)
    /\ [][\A j \in RequestPublishIds, u \in Users :
              (j \notin DOMAIN publish_jobs \/ u # Owner(j)) =>
                  /\ cancel_publishing(j, u) => UNCHANGED vars
                  /\ get_publish_status(j, u) => UNCHANGED vars]_vars

C13_Witness ==
    \E j \in DOMAIN publish_jobs, u \in Users :
        /\ u # Owner(j)
        /\ CancelCheck(j, Owner(j)) = 200
        /\ CancelCheck(j, u) = 403
        /\ StatusCheck(j, u) = 403
        /\ Len(publish_jobs) < MaxJobs

C15_NoCredentialNeverPublishing ==
    \A j \in DOMAIN publish_jobs :
        \A p \in DOMAIN publish_jobs[j].platform_statuses :
            <<publish_jobs[j].user_id, p>> \notin platform_credentials =>
                publish_jobs[j].platform_statuses[p].status # "publishing"

\* C16: a slot that is success or failed never changes again.
C16_TerminalSlotFrozen ==
    [][\A j \in DOMAIN publish_jobs :
          \A p \in DOMAIN publish_jobs[j].platform_statuses :
              publish_jobs[j].platform_statuses[p].status \in {"success", "failed"} =>
                  publish_jobs'[j].platform_statuses[p] =
                      publish_jobs[j].platform_statuses[p]]_vars

\* job j was created with its background tasks (immediate, unscheduled batch)
Dispatched(j) == publish_jobs[j].scheduled_time = None

\* the task at position i of the queue q is the one for slot p of job j
IsTask(q, i, j, p) ==
    /\ i \in DOMAIN background_tasks[q]
    /\ background_tasks[q][i] = [publish_id |-> j, platform |-> p]

\* C17: a step changes the slot of platform p of job j only through a task of
\* that very slot (the task that starts, the task that ends, or the task that
\* starts as its predecessor ends); and a failed slot leaves its siblings to
\* their own outcome: a sibling with a credential is never failed, and once
\* the job's tasks are done every slot holds the result of its own attempt.
C17_SlotUpdatesIsolated ==
    /\ [][\A j \in DOMAIN publish_jobs :
              \A p \in DOMAIN publish_jobs[j].platform_statuses :
                  publish_jobs'[j].platform_statuses[p] # publish_jobs[j].platform_statuses[p] =>
                      \/ \E q \in DOMAIN background_tasks :
                             BackgroundStart(q) /\ IsTask(q, 1, j, p)
                      \/ /\ BackgroundResume
                         /\ IsTask(Head(sleeping), 1, j, p) \/ IsTask(Head(sleeping), 2, j, p)]_vars
    /\ [](\A j \in DOMAIN publish_jobs :
              LET job == publish_jobs[j]
              IN  \A p \in DOMAIN job.platform_statuses :
                      \A sibling \in DOMAIN job.platform_statuses \ {p} :
                          job.platform_statuses[p].status = "failed" =>
                              /\ publish_to_platform(job.user_id, sibling).status = "success" =>
                                     job.platform_statuses[sibling].status # "failed"
                              /\ (Dispatched(j) /\ TasksDone(j)) =>
                                     job.platform_statuses[sibling] =
                                         publish_to_platform(job.user_id, sibling))

C17_Witness ==
    \E j \in DOMAIN publish_jobs :
        /\ Dispatched(j) /\ TasksDone(j)
        /\ publish_jobs[j].platforms = <<"instagram", "twitter">>
        /\ publish_jobs[j].platform_statuses["instagram"].status = "failed"
        /\ publish_jobs[j].platform_statuses["twitter"].status = "success"

\* C18: once all tasks of a dispatched job have finished, however they were
\* interleaved with the tasks of other requests, every slot holds the result
\* of its own task and the overall status is the one computed from the whole
\* slot map: completed with a success among the slots, failed without.
C18_NoLostWrite ==
    \A j \in DOMAIN publish_jobs :
        LET job == publish_jobs[j]
        IN  (Dispatched(j) /\ TasksDone(j) /\ job.platforms # <<>>) =>
                /\ \A p \in DOMAIN job.platform_statuses :
                       job.platform_statuses[p] = publish_to_platform(job.user_id, p)
                /\ job.status =
                       IF \E p \in DOMAIN job.platform_statuses :
                              job.platform_statuses[p].status = "success"
                       THEN "completed" ELSE "failed"
                /\ job.updated_at # None

C18_Witness ==
    /\ Len(background_tasks) = 2
    /\ \A j \in 1..2 :
           /\ j \in DOMAIN publish_jobs
           /\ Dispatched(j) /\ TasksDone(j)
           /\ Cardinality(DOMAIN publish_jobs[j].platform_statuses) = 2
    /\ publish_jobs[1].status = "completed"
    /\ publish_jobs[2].status = "completed"

\* C19: a job that is scheduled and whose effective time has been reached
\* eventually leaves the overall status scheduled (by dispatch or by a cancel).
C19_ScheduledEventuallyDispatched ==
    \A j \in 1..MaxJobs :
        (/\ j \in DOMAIN publish_jobs
         /\ publish_jobs[j].status = "scheduled"
         /\ EffectiveTime(publish_jobs[j]) <= now)
            ~> (j \in DOMAIN publish_jobs /\ publish_jobs[j].status # "scheduled")

\* C20: no slot of a job is publishing, success or failed before the job's
\* effective time.
C20_NoDispatchBeforeEffectiveTime ==
    \A j \in DOMAIN publish_jobs :
        DispatchBegun(j) => now >= EffectiveTime(publish_jobs[j])

\* C21: the slot map of every job has exactly one slot for each entry of the
\* job's platform list: its keys are the listed platforms and there are as
\* many slots as entries; and no step adds or removes a slot.
C21_OneSlotPerEntry ==
    /\ [](\A j \in DOMAIN publish_jobs :
              /\ DOMAIN publish_jobs[j].platform_statuses = Range(publish_jobs[j].platforms)
              /\ Cardinality(DOMAIN publish_jobs[j].platform_statuses) =
                     Len(publish_jobs[j].platforms))
    /\ [][\A j \in DOMAIN publish_jobs :
              DOMAIN publish_jobs'[j].platform_statuses =
                  DOMAIN publish_jobs[j].platform_statuses]_vars

\* the positions skip .. skip + limit - 1 (counted from 0) of a list of n
Positions(skip, limit, n) == {k \in 0..(n - 1) : skip <= k /\ k < skip + limit}

\* C22: the history of a caller names only the caller's jobs, newest first,
\* exactly those at the positions skip .. skip + limit - 1 of that order; its
\* total is the number of the caller's jobs; and the request changes nothing.
C22_HistoryPage ==
    /\ [](\A u \in Users, skip \in Skips, limit \in Limits :
              LET response == PublishHistoryResponse(u, skip, limit)
                  mine == {j \in DOMAIN publish_jobs : Owner(j) = u}
                  Rank(j) == Cardinality({k \in mine :
                                 \/ publish_jobs[k].created_at > publish_jobs[j].created_at
                                 \/ /\ publish_jobs[k].created_at = publish_jobs[j].created_at
                                    /\ k < j})
              IN  /\ response.total = Cardinality(mine)
                  /\ Range(response.jobs) \subseteq mine
                  /\ \A a, b \in DOMAIN response.jobs :
                         a < b => publish_jobs[response.jobs[a]].created_at
                                      >= publish_jobs[response.jobs[b]].created_at
                  /\ {Rank(response.jobs[a]) : a \in DOMAIN response.jobs}
                         = Positions(skip, limit, Cardinality(mine))
                  /\ Len(response.jobs) = Cardinality(Range(response.jobs)))
    /\ [][\A u \in Users, skip \in Skips, limit \in Limits :
              get_publish_history(u, skip, limit) => UNCHANGED vars]_vars

\* C23: no step removes a job, and a step changes nothing of a stored job but
\* its slots, its overall status and its updated_at.
C23_JobsAppendOnly ==
    [][/\ Len(publish_jobs') >= Len(publish_jobs)
       /\ \A j \in DOMAIN publish_jobs :
              [publish_jobs'[j] EXCEPT !.platform_statuses = publish_jobs[j].platform_statuses,
                                       !.status = publish_jobs[j].status,
                                       !.updated_at = publish_jobs[j].updated_at]
                  = publish_jobs[j]]_vars

C23_Witness ==
    /\ \E j \in DOMAIN publish_jobs :
           /\ publish_jobs[j].status = "cancelled"
           /\ publish_jobs[j].updated_at # None
           /\ publish_jobs[j].platforms # <<>>
    /\ \E k \in DOMAIN publish_jobs :
           /\ publish_jobs[k].status = "completed"
           /\ publish_jobs[k].updated_at # None

\* C24: an accepted batch over N content ids appends exactly N jobs to the
\* store and leaves the jobs already there as they were; the new jobs are one
\* for each requested content id, each with the request's platform list and
\* the caller as owner.
C24_BatchCreatesOnePerContent ==
    [][Len(publish_jobs') > Len(publish_jobs) =>
          \A u \in Users, cs \in ContentIdLists \ {<<>>}, pl \in AddedPlatforms,
             st \in ScheduledTimes, sm \in StaggerMinutes :
              (BatchCheck(u, cs) = 200 /\ batch_publish(u, cs, pl, st, sm)) =>
                  LET new == (Len(publish_jobs) + 1)..Len(publish_jobs')
                  IN  /\ Len(publish_jobs') = Len(publish_jobs) + Len(cs)
                      /\ SubSeq(publish_jobs', 1, Len(publish_jobs)) = publish_jobs
                      /\ \A i \in DOMAIN cs :
                             Cardinality({k \in new : publish_jobs'[k].content_id = cs[i]}) = 1
                      /\ \A k \in new :
                             /\ publish_jobs'[k].platforms = pl
                             /\ publish_jobs'[k].user_id = u]_vars

C24_Witness ==
    /\ Len(publish_jobs) = 2
    /\ publish_jobs[1].content_id # publish_jobs[2].content_id
    /\ publish_jobs[1].platforms = <<"twitter", "instagram">>
    /\ publish_jobs[2].platforms = <<"twitter", "instagram">>
    /\ Len(background_tasks) = 1
    /\ \E i, k \in DOMAIN background_tasks[1] :
           background_tasks[1][i].publish_id = 1 /\ background_tasks[1][k].publish_id = 2

SlotEdges ==
    {<<"scheduled", "pending">>, <<"pending", "publishing">>,
     <<"publishing", "success">>, <<"publishing", "failed">>, <<"pending", "failed">>,
     <<"pending", "cancelled">>, <<"scheduled", "cancelled">>}

\* C26: every change of a slot's status is one of the edges scheduled ->
\* pending, pending -> publishing, publishing -> success, publishing ->
\* failed, pending -> failed, pending -> cancelled, scheduled -> cancelled.
C26_SlotEdgesOnly ==
    [][\A j \in DOMAIN publish_jobs :
          \A p \in DOMAIN publish_jobs[j].platform_statuses :
              LET old == publish_jobs[j].platform_statuses[p].status
                  new == publish_jobs'[j].platform_statuses[p].status
              IN  old # new => <<old, new>> \in SlotEdges]_vars

\* C27: a success slot carries a post id and a url and no error, a failed
\* slot carries an error and neither post id nor url, and a scheduled, pending
\* or publishing slot carries none of the three.
C27_SlotFieldsMatchStatus ==
    \A j \in DOMAIN publish_jobs :
        \A p \in DOMAIN publish_jobs[j].platform_statuses :
            LET slot == publish_jobs[j].platform_statuses[p]
            IN  /\ slot.status = "success" =>
                       /\ slot.platform_post_id # None
                       /\ slot.published_url # None
                       /\ slot.error = None
                /\ slot.status = "failed" =>
                       /\ slot.error # None
                       /\ slot.platform_post_id = None
                       /\ slot.published_url = None
                /\ slot.status \in {"scheduled", "pending", "publishing"} =>
                       /\ slot.platform_post_id = None
                       /\ slot.published_url = None
                       /\ slot.error = None

C27_Witness ==
    \E j \in DOMAIN publish_jobs :
        /\ publish_jobs[j].platforms = <<"twitter", "twitter">>
        /\ publish_jobs[j].platform_statuses["twitter"].status = "publishing"
        /\ publish_jobs[j].updated_at # None
        /\ \E k \in DOMAIN publish_jobs : "failed" \in Statuses(publish_jobs[k])

\* C28: a job stored with a scheduled_time later than its creation has
\* overall status scheduled and every slot scheduled, and a job stored without
\* a scheduled_time has every slot pending, whichever request created it.
C28_InitialSlots ==
    [][\A k \in (Len(publish_jobs) + 1)..Len(publish_jobs') :
          LET job == publish_jobs'[k]
          IN  /\ (job.scheduled_time # None /\ job.scheduled_time[1] > job.created_at) =>
                     /\ job.status = "scheduled"
                     /\ Statuses(job) \subseteq {"scheduled"}
              /\ job.scheduled_time = None => Statuses(job) \subseteq {"pending"}]_vars

\* C29: every job stored without a scheduled_time eventually has overall
\* status completed or failed with every slot success or failed.
C29_UnscheduledJobFinishes ==
    \A j \in 1..MaxJobs :
        (j \in DOMAIN publish_jobs /\ Dispatched(j))
            ~> (/\ j \in DOMAIN publish_jobs
                /\ publish_jobs[j].status \in {"completed", "failed"}
                /\ Statuses(publish_jobs[j]) \subseteq {"success", "failed"})

\* C30: an accepted immediate publish finds the content ready and leaves it
\* processing; while a content is processing every immediate, schedule and
\* batch request for it is refused with 400, it stays processing, and no step
\* stores a job for it.
C30_ProcessingBlocksPublishing ==
    /\ [](\A c \in ContentIds :
              content[c] = "processing" =>
                  /\ ContentCheck(ContentOwner[c], c) = 400
                  /\ \A st \in ScheduledTimes : ScheduleCheck(ContentOwner[c], c, st) = 400
                  /\ \A cs \in ContentIdLists :
                         c \in Range(cs) => BatchCheck(ContentOwner[c], cs) = 400)
    /\ [][\A c \in ContentIds :
              /\ (\E u \in Users, pl \in AddedPlatforms :
                      ContentCheck(u, c) = 200 /\ publish_immediately(u, c, pl)) =>
                     content[c] = "ready" /\ content'[c] = "processing"
              /\ content[c] = "processing" =>
                     /\ content'[c] = "processing"
                     /\ \A k \in (Len(publish_jobs) + 1)..Len(publish_jobs') :
                            publish_jobs'[k].content_id # c]_vars

C30_Witness ==
    /\ Len(publish_jobs) < MaxJobs
    /\ \E c \in ContentIds :
           /\ content[c] = "processing"
           /\ \E j \in DOMAIN publish_jobs : publish_jobs[j].content_id = c
           /\ ContentCheck(ContentOwner[c], c) = 400
====
